---- MODULE Spec2Model ----
(***************************************************************************)
(* A model of the file utilities of sim_recon (src/sim_recon/files/utils): *)
(* output-path allocation, filename sanitisation, the delete-if-empty      *)
(* guard, NamedTemporaryDirectory and redirect_output_to.                  *)
(*                                                                         *)
(* Filenames are sequences of one-character strings, so that stripping,    *)
(* substitution and concatenation are computed character by character.     *)
(***************************************************************************)
EXTENDS Integers, Sequences, FiniteSets, TLC

VARIABLES
    system,     \* what platform.system() returns in this process
    job,        \* the arguments create_output_path is called with (fixed per run)
    files,      \* the paths <<directory, filename>> that exist
    res,        \* the last create_output_path call: its arguments and outcome
    created,    \* candidate indices of the unique paths written so far, in order
    san,        \* one ensure_valid_filename experiment: input, output, output of output
    gdir,       \* what is at the path given to delete_directory_if_empty
    guard,      \* the delete_directory_if_empty context: position, try_cleanup, record
    tparent,    \* the directory given to NamedTemporaryDirectory: missing, dir or file
    tfs,        \* what is at each name under that directory: absent, empty or full
    scopes,     \* the NamedTemporaryDirectory objects
    ctor,       \* the NamedTemporaryDirectory constructors running concurrently:
                \* each one's arguments and its position in __init__
    rd,         \* the process around redirect_output_to: descriptors, sys.stdout
                \* and sys.stderr, the position in the function and its record
    cli,        \* the sim-otf command: its command line, the parsed namespace
                \* and what reaches load_configs and convert_psfs_to_otfs
    batch,      \* one call of sim_reconstruct_multiple: the configuration
                \* files, the Jobs and what the call raised
    alloc       \* the callers of create_output_path that run concurrently:
                \* what each was returned and whether it has written its file

pathVars == <<system, job, files, res, created, alloc>>
sanVars == <<san>>
guardVars == <<gdir, guard>>
tmpVars == <<tparent, tfs, scopes, ctor>>
rdVars == <<rd>>
cliVars == <<cli>>
batchVars == <<batch>>
vars == <<system, job, files, res, created, san, gdir, guard,
          tparent, tfs, scopes, ctor, rd, cli, batch, alloc>>

notPath == <<sanVars, guardVars, tmpVars, rdVars, cliVars, batchVars>>
notSan == <<pathVars, guardVars, tmpVars, rdVars, cliVars, batchVars>>
notGuard == <<pathVars, sanVars, tmpVars, rdVars, cliVars, batchVars>>
notTmp == <<pathVars, sanVars, guardVars, rdVars, cliVars, batchVars>>
notRd == <<pathVars, sanVars, guardVars, tmpVars, cliVars, batchVars>>
notCli == <<pathVars, sanVars, guardVars, tmpVars, rdVars, batchVars>>
notBatch == <<pathVars, sanVars, guardVars, tmpVars, rdVars, cliVars>>

None == "None"

-----------------------------------------------------------------------------
(* Bounds *)

\* largest max_path_iter argument tried
MaxIter == 3
\* longest filename given to ensure_valid_filename
MaxLen == 3
\* most entries the guarded directory holds
MaxEntries == 2
\* how many random names mkdtemp can draw for one prefix
MaxRand == 2
\* how many NamedTemporaryDirectory objects are constructed
MaxScopes == 1
\* how many redirect_output_to scopes run one after another
MaxRuns == 2
\* how many paths follow -p/--psf on the command line
MaxPsf == 2
\* how many NamedTemporaryDirectory constructors run concurrently
MaxCtors == 2
\* how many callers of create_output_path run concurrently
MaxAllocs == 2
\* how many data files one call of sim_reconstruct_multiple is given
MaxJobs == 3

-----------------------------------------------------------------------------
(* Strings *)

DigitChar(d) ==
    CASE d = 0 -> "0" [] d = 1 -> "1" [] d = 2 -> "2" [] d = 3 -> "3"
      [] d = 4 -> "4" [] d = 5 -> "5" [] d = 6 -> "6" [] d = 7 -> "7"
      [] d = 8 -> "8" [] d = 9 -> "9"

RECURSIVE Str(_)
\* str(n) of a natural number: its decimal digits
Str(n) ==
    IF n < 10 THEN <<DigitChar(n)>>
    ELSE Str(n \div 10) \o <<DigitChar(n % 10)>>

RECURSIVE Pad(_, _)
\* a %0wd field of strftime
Pad(n, w) ==
    IF w <= 1 THEN Str(n)
    ELSE IF Len(Str(n)) >= w THEN Str(n) ELSE <<"0">> \o Pad(n, w - 1)

RECURSIVE Join(_, _)
\* sep.join(parts)
Join(parts, sep) ==
    IF Len(parts) = 0 THEN <<>>
    ELSE IF Len(parts) = 1 THEN parts[1]
    ELSE parts[1] \o sep \o Join(Tail(parts), sep)

RECURSIVE RStrip(_, _)
\* s.rstrip(chars)
RStrip(s, chars) ==
    IF Len(s) > 0 /\ s[Len(s)] \in chars
    THEN RStrip(SubSeq(s, 1, Len(s) - 1), chars)
    ELSE s

\* re.sub(pattern, "_", s) for a pattern that is one character class
ReSub(class, s) == [i \in 1..Len(s) |-> IF s[i] \in class THEN "_" ELSE s[i]]

-----------------------------------------------------------------------------
(* Module constants of files/utils.py *)

OTF_NAME_STUB == <<"O", "T", "F">>
RECON_NAME_STUB == <<"r", "e", "c", "o", "n">>

OUTPUT_TYPE_STUBS(output_type) ==
    IF output_type = "otf" THEN OTF_NAME_STUB ELSE RECON_NAME_STUB

\* The characters the compiled class '[<>:"/\\|?*]' matches.  The Python
\* literal '\\|' is the two characters \| , which inside a class is an escaped
\* "|": the class holds no backslash.
WINDOWS_FN_SUB == {"<", ">", ":", "\"", "/", "|", "?", "*"}
LINUX_FN_SUB == {"/"}
DARWIN_FN_SUB == {"/", ":"}

Systems == {"Windows", "Linux", "Darwin", "Java"}
Supported == {"Windows", "Linux", "Darwin"}

-----------------------------------------------------------------------------
(* ensure_valid_filename *)

\* invalid_chars, as the branches on platform.system() set it
InvalidChars(sys) ==
    IF sys = "Windows" THEN WINDOWS_FN_SUB
    ELSE IF sys = "Linux" THEN LINUX_FN_SUB
    ELSE DARWIN_FN_SUB

\* rstrip: " " unless the Windows branch sets " ."
RStripChars(sys) == IF sys = "Windows" THEN {" ", "."} ELSE {" "}

\* a faulty variant: invalid characters are replaced by a blank
EnsureValidFilenameBlank(sys, filename) ==
    IF sys \notin Supported THEN [kind |-> "OSError", name |-> <<>>]
    ELSE LET r == RStrip(filename, RStripChars(sys))
         IN  [kind |-> "ok",
              name |-> [i \in 1..Len(r) |->
                          IF r[i] \in InvalidChars(sys) THEN " " ELSE r[i]]]

\* [kind |-> "ok", name |-> the sanitised name] or the PySimReconOSError
EnsureValidFilename(sys, filename) ==
    IF sys \notin Supported
    THEN [kind |-> "OSError", name |-> <<>>]
    ELSE [kind |-> "ok",
          name |-> ReSub(InvalidChars(sys), RStrip(filename, RStripChars(sys)))]

-----------------------------------------------------------------------------
(* ensure_unique_filepath *)

\* f"{stem}_{i}{suffix}"
Indexed(stem, i, suffix) == stem \o <<"_">> \o Str(i) \o suffix

NoPath == <<None, <<>>>>

RECURSIVE UniqueLoopShort(_, _, _, _, _, _, _)
\* a faulty variant: range(1, max_iter), which never tries the last index
UniqueLoopShort(fs, dir, stem, suffix, max_iter, i, probes) ==
    IF i > max_iter - 1
    THEN [kind |-> "IOError", path |-> NoPath, probes |-> probes,
          final |-> IF i > 1 THEN <<dir, Indexed(stem, i - 1, suffix)>> ELSE NoPath]
    ELSE LET output_path == <<dir, Indexed(stem, i, suffix)>>
         IN  IF output_path \notin fs
             THEN [kind |-> "ok", path |-> output_path,
                   probes |-> Append(probes, output_path), final |-> NoPath]
             ELSE UniqueLoopShort(fs, dir, stem, suffix, max_iter, i + 1,
                                  Append(probes, output_path))

RECURSIVE UniqueLoop(_, _, _, _, _, _, _)
\* for i in range(1, max_iter + 1), entered at index i with the probes made so far
UniqueLoop(fs, dir, stem, suffix, max_iter, i, probes) ==
    IF i > max_iter
    THEN [kind |-> "IOError", path |-> NoPath, probes |-> probes,
          final |-> IF i > 1 THEN <<dir, Indexed(stem, i - 1, suffix)>> ELSE NoPath]
    ELSE LET output_path == <<dir, Indexed(stem, i, suffix)>>
         IN  IF output_path \notin fs
             THEN [kind |-> "ok", path |-> output_path,
                   probes |-> Append(probes, output_path), final |-> NoPath]
             ELSE UniqueLoop(fs, dir, stem, suffix, max_iter, i + 1,
                             Append(probes, output_path))

\* probes: the paths whose existence was tested, in order;
\* final: the path the PySimReconIOError names
EnsureUniqueFilepath(fs, dir, stem, suffix, max_iter) ==
    LET path == <<dir, stem \o suffix>>
    IN  IF path \notin fs
        THEN [kind |-> "ok", path |-> path, probes |-> <<path>>, final |-> NoPath]
        ELSE IF max_iter <= 1
        THEN [kind |-> "ValueError", path |-> NoPath, probes |-> <<path>>,
              final |-> NoPath]
        ELSE UniqueLoop(fs, dir, stem, suffix, max_iter, 1, <<path>>)

-----------------------------------------------------------------------------
(* create_output_path *)

\* datetime.fromtimestamp(mtime).strftime("%Y%m%d_%H%M%S")
StrfTime(t) ==
    Pad(t.Y, 4) \o Pad(t.m, 2) \o Pad(t.d, 2) \o <<"_">>
        \o Pad(t.H, 2) \o Pad(t.M, 2) \o Pad(t.S, 2)

\* "_".join(output_fp_parts)
FileStem(j) ==
    Join(<<j.stem, OUTPUT_TYPE_STUBS(j.output_type)>>
            \o (IF Len(j.wavelength) > 0 THEN <<Str(j.wavelength[1])>> ELSE <<>>)
            \o (IF j.mod_timestamp THEN <<StrfTime(j.mtime)>> ELSE <<>>),
         <<"_">>)

\* file_path.parent when no output directory is given
OutputDirectory(j) ==
    IF j.output_directory = None THEN "src_parent" ELSE j.output_directory

CreateOutputPath(sys, fs, j, ensure_unique, max_path_iter) ==
    IF j.mod_timestamp /\ ~j.src_exists
    THEN \* file_path.stat() raises
         [kind |-> "FileNotFoundError", path |-> NoPath, probes |-> <<>>,
          final |-> NoPath]
    ELSE IF ensure_unique
    THEN EnsureUniqueFilepath(fs, OutputDirectory(j), FileStem(j), j.suffix,
                              max_path_iter)
    ELSE LET v == EnsureValidFilename(sys, FileStem(j) \o j.suffix)
         IN  IF v.kind = "ok"
             THEN [kind |-> "ok", path |-> <<OutputDirectory(j), v.name>>,
                   probes |-> <<>>, final |-> NoPath]
             ELSE [kind |-> v.kind, path |-> NoPath, probes |-> <<>>,
                   final |-> NoPath]

-----------------------------------------------------------------------------
(* The path allocator: one source file, allocated for repeatedly *)

SrcStems == {<<"a">>, <<"a", ":">>}
Suffixes == {<<".", "t">>, <<".", "t", " ">>}
\* the optional wavelength: <<>> is None
Wavelengths == {<<>>, <<488>>}
MTimes == {[Y |-> 2024, m |-> 1, d |-> 2, H |-> 13, M |-> 0, S |-> 59]}

\* how the call is made: output type, output directory, wavelength
Variants ==
    {[output_type |-> "otf", output_directory |-> None, wavelength |-> <<>>],
     [output_type |-> "recon", output_directory |-> "out", wavelength |-> <<488>>],
     [output_type |-> "otf", output_directory |-> "out", wavelength |-> <<488>>]}

Jobs ==
    {[stem |-> st, output_type |-> v.output_type, suffix |-> su,
      output_directory |-> v.output_directory, wavelength |-> v.wavelength,
      mod_timestamp |-> ts, src_exists |-> ex, mtime |-> mt] :
        st \in SrcStems, su \in Suffixes, v \in Variants,
        ts \in BOOLEAN, ex \in BOOLEAN, mt \in MTimes}

\* the k-th path uniqueness resolution considers for job j
Cand(j, k) ==
    <<OutputDirectory(j),
      IF k = 0 THEN FileStem(j) \o j.suffix ELSE Indexed(FileStem(j), k, j.suffix)>>

NoCall ==
    [called |-> FALSE, ensure_unique |-> FALSE, max_iter |-> 0, fs |-> {},
     out |-> [kind |-> "none", path |-> NoPath, probes |-> <<>>, final |-> NoPath]]

\* any of the paths the resolution may probe can exist beforehand
InitPath ==
    /\ system \in Systems
    /\ job \in {j \in Jobs : j.src_exists \/ j.mod_timestamp}
    /\ files \in SUBSET {Cand(job, k) : k \in 0..MaxIter}
    /\ res = NoCall
    /\ created = <<>>
    /\ alloc = <<>>

IdlePath ==
    /\ system = "Linux"
    /\ job = None
    /\ files = {}
    /\ res = NoCall
    /\ created = <<>>
    /\ alloc = <<>>

\* create_output_path(file_path, output_type, suffix, ..., ensure_unique, max_path_iter)
CreateOutputPathCall(ensure_unique, max_path_iter) ==
    /\ res' = [called |-> TRUE, ensure_unique |-> ensure_unique,
               max_iter |-> max_path_iter, fs |-> files,
               out |-> CreateOutputPath(system, files, job, ensure_unique,
                                        max_path_iter)]
    /\ UNCHANGED <<system, job, files, created, alloc>>
    /\ UNCHANGED notPath

\* the index k with p = Cand(job, k), or -1
CandIndex(p) ==
    IF \E k \in 0..MaxIter : Cand(job, k) = p
    THEN CHOOSE k \in 0..MaxIter : Cand(job, k) = p
    ELSE -1

\* the caller writes the file at the path it was given
WriteOutput ==
    /\ res.called
    /\ res.out.kind = "ok"
    /\ res.out.path \notin files
    /\ files' = files \cup {res.out.path}
    /\ created' = IF res.ensure_unique
                  THEN Append(created, CandIndex(res.out.path))
                  ELSE created
    /\ UNCHANGED <<system, job, res, alloc>>
    /\ UNCHANGED notPath

NextPath ==
    \/ \E eu \in BOOLEAN, mi \in 0..MaxIter : CreateOutputPathCall(eu, mi)
    \/ WriteOutput

-----------------------------------------------------------------------------
(* Callers of create_output_path(..., ensure_unique=True) that run at the     *)
(* same time for the same source file, output type and suffix.  A caller is   *)
(* returned a path and writes its file later.                                 *)

AllocIds == 1..MaxAllocs

NoAlloc ==
    [st |-> "idle", max_iter |-> 0, seen |-> {}, clobbered |-> FALSE,
     out |-> [kind |-> "none", path |-> NoPath, probes |-> <<>>, final |-> NoPath]]

InitAlloc ==
    /\ system \in {"Linux", "Windows"}
    /\ job \in {j \in Jobs : /\ j.src_exists
                             /\ ~j.mod_timestamp
                             /\ j.output_type = "otf"
                             /\ j.output_directory = None}
    /\ files \in SUBSET {Cand(job, k) : k \in 0..MaxIter}
    /\ res = NoCall
    /\ created = <<>>
    /\ alloc = [a \in AllocIds |-> NoAlloc]

\* caller a calls create_output_path(..., ensure_unique=True,
\* max_path_iter=max_path_iter): the existence probes see the files there now
AllocCall(a, max_path_iter) ==
    /\ alloc[a].st = "idle"
    /\ LET out == CreateOutputPath(system, files, job, TRUE, max_path_iter)
       IN  alloc' = [alloc EXCEPT ![a] =
                       [st |-> IF out.kind = "ok" THEN "returned" ELSE "raised",
                        max_iter |-> max_path_iter, seen |-> files,
                        clobbered |-> FALSE, out |-> out]]
    /\ UNCHANGED <<system, job, files, res, created>>
    /\ UNCHANGED notPath

\* caller a writes its output at the path it was returned, over whatever is
\* there by now
AllocWrite(a) ==
    /\ alloc[a].st = "returned"
    /\ files' = files \cup {alloc[a].out.path}
    /\ alloc' = [alloc EXCEPT ![a].st = "written",
                              ![a].clobbered = alloc[a].out.path \in files]
    /\ UNCHANGED <<system, job, res, created>>
    /\ UNCHANGED notPath

NextAlloc ==
    \/ \E a \in AllocIds, mi \in 0..MaxIter : AllocCall(a, mi)
    \/ \E a \in AllocIds : AllocWrite(a)

-----------------------------------------------------------------------------
(* The sanitiser applied to every short filename *)

Alphabet == {"a", " ", ".", "/", ":", "\\", "?", "_"}

Filenames == UNION {[1..n -> Alphabet] : n \in 0..MaxLen}

InitSan ==
    san \in [sys : Systems, filename : Filenames, stage : {0},
             out : {[kind |-> "none", name |-> <<>>]},
             again : {[kind |-> "none", name |-> <<>>]}]

IdleSan ==
    san = [sys |-> "Linux", filename |-> <<>>, stage |-> 0,
           out |-> [kind |-> "none", name |-> <<>>],
           again |-> [kind |-> "none", name |-> <<>>]]

\* ensure_valid_filename(filename)
Sanitise ==
    /\ san.stage = 0
    /\ san' = [san EXCEPT !.stage = 1,
                          !.out = EnsureValidFilename(san.sys, san.filename)]
    /\ UNCHANGED notSan

\* ensure_valid_filename applied to its own result
SanitiseAgain ==
    /\ san.stage = 1
    /\ san.out.kind = "ok"
    /\ san' = [san EXCEPT !.stage = 2,
                          !.again = EnsureValidFilename(san.sys, san.out.name)]
    /\ UNCHANGED notSan

NextSan == Sanitise \/ SanitiseAgain

-----------------------------------------------------------------------------
(* delete_directory_if_empty around one guarded operation *)

Absent == [kind |-> "absent", entries |-> {}]
AFile == [kind |-> "file", entries |-> {}]
Dir(entries) == [kind |-> "dir", entries |-> entries]

Entries == 1..MaxEntries

PathStates == {Absent, AFile} \cup {Dir(es) : es \in SUBSET Entries}

\* os.path.isdir(path)
IsDir(d) == d.kind = "dir"

\* a faulty variant: cleanup is tried whether or not the directory was there
TryCleanupAlways(d) == TRUE

\* try_cleanup = not os.path.isdir(path)
TryCleanup(d) == ~IsDir(d)

\* a faulty variant: the directory is removed without looking into it
RemovesAtExitUnscanned(try_cleanup, d) == try_cleanup /\ IsDir(d)

\* the finally block: rmdir when cleanup is to be tried, the path is a
\* directory and scandir finds nothing in it
RemovesAtExit(try_cleanup, d) == try_cleanup /\ IsDir(d) /\ d.entries = {}

InitGuard ==
    /\ gdir \in PathStates
    /\ guard = [pc |-> "idle", path_none |-> FALSE, try_cleanup |-> FALSE,
                at_entry |-> Absent, at_exit |-> Absent, raised |-> FALSE]

IdleGuard ==
    /\ gdir = Absent
    /\ guard = [pc |-> "idle", path_none |-> FALSE, try_cleanup |-> FALSE,
                at_entry |-> Absent, at_exit |-> Absent, raised |-> FALSE]

\* entering the context, up to the yield; path_none: the path given is None
EnterGuard(path_none) ==
    /\ guard.pc = "idle"
    /\ guard' = [guard EXCEPT !.pc = "inside", !.path_none = path_none,
                              !.try_cleanup = IF path_none THEN FALSE
                                              ELSE TryCleanup(gdir),
                              !.at_entry = gdir]
    /\ UNCHANGED gdir
    /\ UNCHANGED notGuard

\* the guarded operation creates the directory
BodyMkdir ==
    /\ guard.pc = "inside" /\ gdir.kind = "absent"
    /\ gdir' = Dir({})
    /\ UNCHANGED guard
    /\ UNCHANGED notGuard

\* the guarded operation removes the (empty) directory
BodyRmdir ==
    /\ guard.pc = "inside" /\ gdir = Dir({})
    /\ gdir' = Absent
    /\ UNCHANGED guard
    /\ UNCHANGED notGuard

\* the guarded operation removes a file that is in the directory's place
BodyUnlink ==
    /\ guard.pc = "inside" /\ gdir.kind = "file"
    /\ gdir' = Absent
    /\ UNCHANGED guard
    /\ UNCHANGED notGuard

\* the guarded operation writes an entry into the directory
BodyAddEntry(e) ==
    /\ guard.pc = "inside" /\ gdir.kind = "dir" /\ e \notin gdir.entries
    /\ gdir' = Dir(gdir.entries \cup {e})
    /\ UNCHANGED guard
    /\ UNCHANGED notGuard

\* the guarded operation removes an entry of the directory
BodyRemoveEntry(e) ==
    /\ guard.pc = "inside" /\ gdir.kind = "dir" /\ e \in gdir.entries
    /\ gdir' = Dir(gdir.entries \ {e})
    /\ UNCHANGED guard
    /\ UNCHANGED notGuard

\* leaving the context: the guarded operation returned (raised = FALSE) or an
\* exception was thrown into the generator at the yield (raised = TRUE)
ExitGuard(raised) ==
    /\ guard.pc = "inside"
    /\ guard' = [guard EXCEPT !.pc = "exited", !.at_exit = gdir,
                              !.raised = raised]
    /\ gdir' = IF ~guard.path_none /\ RemovesAtExit(guard.try_cleanup, gdir)
               THEN Absent
               ELSE gdir
    /\ UNCHANGED notGuard

NextGuard ==
    \/ \E pn \in BOOLEAN : EnterGuard(pn)
    \/ BodyMkdir
    \/ BodyRmdir
    \/ BodyUnlink
    \/ \E e \in Entries : BodyAddEntry(e)
    \/ \E e \in Entries : BodyRemoveEntry(e)
    \/ \E r \in BOOLEAN : ExitGuard(r)

-----------------------------------------------------------------------------
(* NamedTemporaryDirectory *)

\* A name under the directory is <<prefix, r>>: <<name, 0>> is directory/name
\* itself, <<prefix, r>> with r >= 1 is prefix followed by the r-th random
\* string mkdtemp can draw.
DirNames == {"x"}
Prefixes == DirNames \cup {"tmp"}
TNames == {<<n, r>> : n \in Prefixes, r \in 0..MaxRand}

ScopeIds == 1..MaxScopes

\* prefix=name, and tempfile's default prefix when name is None
Prefix(name) == IF name = None THEN "tmp" ELSE name

\* Path(directory) / name
Target(name) == <<name, 0>>

NoScope ==
    [st |-> "none", path |-> Target("tmp"), delete |-> FALSE, ignore |-> FALSE,
     err |-> "none", warned |-> FALSE, rmfailed |-> FALSE,
     unraisable |-> FALSE]

\* a faulty variant: the parent is created whether or not parents is set
ConstructParentAlways(parent, parents) ==
    IF parent = "dir" THEN [outcome |-> "ok", parent |-> parent]
    ELSE IF parent = "file"
    THEN [outcome |-> "OSFileExistsError", parent |-> parent]
    ELSE [outcome |-> "ok", parent |-> "dir"]

\* if not path.parent.is_dir(): raise unless parents, else mkdir(parents=True)
ConstructParent(parent, parents) ==
    IF parent = "dir" THEN [outcome |-> "ok", parent |-> parent]
    ELSE IF ~parents
    THEN [outcome |-> "FileNotFoundError", parent |-> parent]
    ELSE IF parent = "file"
    THEN [outcome |-> "OSFileExistsError", parent |-> parent]
    ELSE [outcome |-> "ok", parent |-> "dir"]

\* a faulty variant: mkdtemp settles for a name that is already there
MkdtempNamesAny(fs, prefix) == {<<prefix, r>> : r \in 0..MaxRand}

\* the names mkdtemp(prefix=prefix, dir=directory) can create: the prefix
\* followed by a random string, not yet existing
MkdtempNames(fs, prefix) ==
    {n \in {<<prefix, r>> : r \in 1..MaxRand} : fs[n] = "absent"}

\* a faulty variant: cleanup removes directory/name rather than self.name
RmtreePathOfTarget(sc) == Target(sc.path[1])

\* the tree explicit and implicit cleanup remove: self.name
RmtreePath(sc) == sc.path

InitTmp ==
    /\ tparent \in {"missing", "dir", "file"}
    /\ tfs \in {f \in [TNames -> {"absent", "empty", "full"}] :
                  /\ tparent # "dir" => \A n \in TNames : f[n] = "absent"
                  /\ \A n \in TNames \ {<<"x", 0>>, <<"x", 1>>} : f[n] = "absent"
                  /\ f[<<"x", 1>>] # "empty"}
    /\ scopes = [s \in ScopeIds |-> NoScope]
    /\ ctor = <<>>

IdleTmp ==
    /\ tparent = "missing"
    /\ tfs = [n \in TNames |-> "absent"]
    /\ scopes = [s \in ScopeIds |-> NoScope]
    /\ ctor = <<>>

\* the constructor raised: no object, nothing registered
ConstructFails(s, outcome, parent) ==
    /\ tparent' = parent
    /\ tfs' = tfs
    /\ scopes' = [scopes EXCEPT ![s] = [NoScope EXCEPT !.st = "failed",
                                                       !.err = outcome]]

\* the directory n is made and the finalizer registered for it
ConstructMakes(s, n, parent, ignore, delete) ==
    /\ tparent' = parent
    /\ tfs' = [tfs EXCEPT ![n] = "empty"]
    /\ scopes' = [scopes EXCEPT ![s] =
                     [st |-> "live", path |-> n, delete |-> delete,
                      ignore |-> ignore, err |-> "none", warned |-> FALSE,
                      rmfailed |-> FALSE, unraisable |-> FALSE]]

\* super().__init__(prefix=name, dir=directory, ...): mkdtemp.  The random
\* names are taken not to run out (the action is not enabled when the model's
\* few names are all in use).
ConstructAnonymous(s, parent, name, ignore, delete) ==
    IF parent # "dir"
    THEN ConstructFails(s, "OSFileNotFoundError", parent)
    ELSE \E n \in MkdtempNames(tfs, Prefix(name)) :
            ConstructMakes(s, n, parent, ignore, delete)

\* NamedTemporaryDirectory(directory, name, parents, allow_fallback,
\*                         ignore_cleanup_errors, delete=delete)
Construct(s, name, parents, allow_fallback, ignore, delete) ==
    /\ scopes[s].st = "none"
    /\ \A q \in ScopeIds : q < s => scopes[q].st # "none"
    /\ IF name = None
       THEN ConstructAnonymous(s, tparent, name, ignore, delete)
       ELSE LET p == ConstructParent(tparent, parents)
            IN  IF p.outcome # "ok"
                THEN ConstructFails(s, p.outcome, p.parent)
                ELSE IF tfs[Target(name)] = "absent"
                THEN ConstructMakes(s, Target(name), p.parent, ignore, delete)
                ELSE IF ~allow_fallback
                THEN ConstructFails(s, "FileExistsError", p.parent)
                ELSE ConstructAnonymous(s, p.parent, name, ignore, delete)
    /\ UNCHANGED ctor
    /\ UNCHANGED notTmp

\* the owner of the scope writes into its directory
WriteInto(s) ==
    /\ scopes[s].st = "live"
    /\ tfs[scopes[s].path] = "empty"
    /\ tfs' = [tfs EXCEPT ![scopes[s].path] = "full"]
    /\ UNCHANGED <<tparent, scopes, ctor>>
    /\ UNCHANGED notTmp

\* rmtree(self.name) cannot delete the tree that is there
RmtreeFails(sc, ok) == ~ok /\ tfs[sc.path] # "absent"

\* rmtree(self.name) raises: the tree is there, cannot be deleted, and errors
\* are not ignored
RmtreeRaises(sc, ok) == RmtreeFails(sc, ok) /\ ~sc.ignore

\* TemporaryDirectory.cleanup(): rmtree of self.name when the finalizer was
\* still attached or the path exists; ok: the tree can be deleted
Cleanup(s, ok) ==
    /\ scopes[s].st \in {"live", "released"}
    /\ LET sc == scopes[s]
           runs == sc.st = "live" \/ tfs[sc.path] # "absent"
       IN  /\ tfs' = IF runs /\ ok THEN [tfs EXCEPT ![RmtreePath(sc)] = "absent"]
                     ELSE tfs
           /\ scopes' = [scopes EXCEPT
                            ![s].st = "released",
                            ![s].rmfailed = runs /\ RmtreeFails(sc, ok),
                            ![s].err = IF runs /\ RmtreeRaises(sc, ok)
                                       THEN "OSError" ELSE "none"]
    /\ UNCHANGED <<tparent, ctor>>
    /\ UNCHANGED notTmp

\* TemporaryDirectory.__exit__: cleanup() when delete is set
ExitScope(s, ok) ==
    /\ scopes[s].st = "live"
    /\ LET sc == scopes[s]
       IN  /\ tfs' = IF sc.delete /\ ok
                     THEN [tfs EXCEPT ![RmtreePath(sc)] = "absent"]
                     ELSE tfs
           /\ scopes' = [scopes EXCEPT
                            ![s].st = IF sc.delete THEN "released" ELSE "live",
                            ![s].rmfailed = sc.delete /\ RmtreeFails(sc, ok),
                            ![s].err = IF sc.delete /\ RmtreeRaises(sc, ok)
                                       THEN "OSError" ELSE "none"]
    /\ UNCHANGED <<tparent, ctor>>
    /\ UNCHANGED notTmp

\* a faulty variant: the finalizer still acts after an explicit release
FinalizerRunsDetached(sc) == sc.delete

\* the finalizer is still attached (cleanup() detaches it) and _cleanup acts
\* only `if delete`
FinalizerRuns(sc) == sc.st = "live" /\ sc.delete

\* the object is collected: the finalizer, if still attached, calls
\* _cleanup(name, warn_message, ignore_errors, delete), which deletes the tree
\* and then warns.  An exception of the callback is reported by the
\* interpreter and goes to no caller.
Finalize(s, ok) ==
    /\ scopes[s].st \in {"live", "released"}
    /\ LET sc == scopes[s]
           runs == FinalizerRuns(sc)
           raises == runs /\ RmtreeRaises(sc, ok)
       IN  /\ tfs' = IF runs /\ ok THEN [tfs EXCEPT ![RmtreePath(sc)] = "absent"]
                     ELSE tfs
           /\ scopes' = [scopes EXCEPT
                            ![s].st = "gone",
                            ![s].err = "none",
                            ![s].rmfailed = runs /\ RmtreeFails(sc, ok),
                            ![s].unraisable = raises,
                            ![s].warned = runs /\ ~raises]
    /\ UNCHANGED <<tparent, ctor>>
    /\ UNCHANGED notTmp

NextTmp ==
    \/ \E s \in ScopeIds, name \in DirNames \cup {None},
          parents, allow_fallback, ignore, delete \in BOOLEAN :
            Construct(s, name, parents, allow_fallback, ignore, delete)
    \/ \E s \in ScopeIds : WriteInto(s)
    \/ \E s \in ScopeIds, ok \in BOOLEAN : Cleanup(s, ok)
    \/ \E s \in ScopeIds, ok \in BOOLEAN : ExitScope(s, ok)
    \/ \E s \in ScopeIds, ok \in BOOLEAN : Finalize(s, ok)

-----------------------------------------------------------------------------
(* NamedTemporaryDirectory.__init__ step by step, for constructors that run   *)
(* at the same time on the same directory.  Each step is one system call.     *)

CtorIds == 1..MaxCtors

NoCtor ==
    [pc |-> "none", name |-> None, parents |-> FALSE, allow_fallback |-> FALSE]

InitRace ==
    /\ tparent \in {"missing", "dir"}
    /\ tfs \in {f \in [TNames -> {"absent", "full"}] :
                  /\ tparent # "dir" => f[<<"x", 0>>] = "absent"
                  /\ \A n \in TNames \ {<<"x", 0>>} : f[n] = "absent"}
    /\ scopes = [c \in CtorIds |-> NoScope]
    /\ ctor = [c \in CtorIds |-> NoCtor]

\* the constructor is at pc and has made no object yet
At(c, pc) == ctor[c].pc = pc /\ scopes[c].st = "none"

\* lines 197-209: the call; with name None it goes straight to super().__init__
CtorCall(c, name, parents, allow_fallback) ==
    /\ At(c, "none")
    /\ ctor' = [ctor EXCEPT ![c] =
                  [pc |-> IF name = None THEN "mkdtemp" ELSE "is_dir",
                   name |-> name, parents |-> parents,
                   allow_fallback |-> allow_fallback]]
    /\ UNCHANGED <<tparent, tfs, scopes>>
    /\ UNCHANGED notTmp

\* lines 210-214: if not path.parent.is_dir(): if not parents: raise
CtorParentIsDir(c) ==
    /\ At(c, "is_dir")
    /\ IF tparent = "dir"
       THEN /\ ctor' = [ctor EXCEPT ![c].pc = "exists"]
            /\ UNCHANGED <<tparent, tfs, scopes>>
       ELSE IF ~ctor[c].parents
       THEN /\ ctor' = [ctor EXCEPT ![c].pc = "raised"]
            /\ ConstructFails(c, "FileNotFoundError", tparent)
       ELSE /\ ctor' = [ctor EXCEPT ![c].pc = "parent_mkdir"]
            /\ UNCHANGED <<tparent, tfs, scopes>>
    /\ UNCHANGED notTmp

\* line 215: path.parent.mkdir(parents=True), which raises when the parent is
\* there by now
CtorParentMkdir(c) ==
    /\ At(c, "parent_mkdir")
    /\ IF tparent = "missing"
       THEN /\ ctor' = [ctor EXCEPT ![c].pc = "exists"]
            /\ tparent' = "dir"
            /\ UNCHANGED <<tfs, scopes>>
       ELSE /\ ctor' = [ctor EXCEPT ![c].pc = "raised"]
            /\ ConstructFails(c, "OSFileExistsError", tparent)
    /\ UNCHANGED notTmp

\* lines 216 and 230-233: if not path.exists() ... elif not allow_fallback: raise
CtorExists(c) ==
    /\ At(c, "exists")
    /\ IF tfs[Target(ctor[c].name)] = "absent"
       THEN /\ ctor' = [ctor EXCEPT ![c].pc = "mkdir"]
            /\ UNCHANGED <<tparent, tfs, scopes>>
       ELSE IF ~ctor[c].allow_fallback
       THEN /\ ctor' = [ctor EXCEPT ![c].pc = "raised"]
            /\ ConstructFails(c, "FileExistsError", tparent)
       ELSE /\ ctor' = [ctor EXCEPT ![c].pc = "mkdtemp"]
            /\ UNCHANGED <<tparent, tfs, scopes>>
    /\ UNCHANGED notTmp

\* a faulty variant: mkdir(exist_ok=True)
MkdirRaisesNever(fs, n) == FALSE

\* path.mkdir(exist_ok=False, parents=False) raises when the path is there
MkdirRaises(fs, n) == fs[n] # "absent"

\* lines 217-229: path.mkdir(exist_ok=False, parents=False), self.name, the
\* finalizer, return
CtorMkdir(c, ignore, delete) ==
    /\ At(c, "mkdir")
    /\ IF MkdirRaises(tfs, Target(ctor[c].name))
       THEN /\ ctor' = [ctor EXCEPT ![c].pc = "mkdir_raised"]
            /\ ConstructFails(c, "OSFileExistsError", tparent)
       ELSE /\ ctor' = [ctor EXCEPT ![c].pc = "returned"]
            /\ ConstructMakes(c, Target(ctor[c].name), tparent, ignore, delete)
    /\ UNCHANGED notTmp

\* lines 235-240: super().__init__(prefix=name, dir=directory, ...)
CtorMkdtemp(c, ignore, delete) ==
    /\ At(c, "mkdtemp")
    /\ ConstructAnonymous(c, tparent, ctor[c].name, ignore, delete)
    /\ ctor' = [ctor EXCEPT ![c].pc = IF tparent = "dir" THEN "returned"
                                      ELSE "raised"]
    /\ UNCHANGED notTmp

NextRace ==
    \/ \E c \in CtorIds, name \in DirNames \cup {None},
          parents, allow_fallback \in BOOLEAN :
            CtorCall(c, name, parents, allow_fallback)
    \/ \E c \in CtorIds : CtorParentIsDir(c)
    \/ \E c \in CtorIds : CtorParentMkdir(c)
    \/ \E c \in CtorIds : CtorExists(c)
    \/ \E c \in CtorIds, delete \in BOOLEAN : CtorMkdir(c, FALSE, delete)
    \/ \E c \in CtorIds, delete \in BOOLEAN : CtorMkdtemp(c, FALSE, delete)
    \/ \E c \in CtorIds, ok \in BOOLEAN : ExitScope(c, ok)

-----------------------------------------------------------------------------
(* redirect_output_to *)

(* Descriptors 1 and 2 point to "out", "err" (the original destinations) or   *)
(* "log" (the target file).  sys.stdout and sys.stderr are "orig_out",        *)
(* "orig_err" or "f", the file object of the target file.  A step that can    *)
(* fail in the operating system takes fail = TRUE for the failure.            *)

InitRedirect ==
    rd = [pc |-> "idle", runs |-> 0,
          fd1 |-> "out", fd2 |-> "err",
          sys_stdout |-> "orig_out", sys_stderr |-> "orig_err",
          f_open |-> FALSE,
          nfds |-> 0,              \* descriptors open beyond 0, 1 and 2
          saved_stdout_fd |-> "none", saved_stderr_fd |-> "none",
          saved_stdout |-> "none", saved_stderr |-> "none",
          entry |-> [fd1 |-> "out", fd2 |-> "err", sys_stdout |-> "orig_out",
                     sys_stderr |-> "orig_err", nfds |-> 0],
          yielded |-> FALSE,       \* the generator reached its yield
          inflight |-> "none",     \* the exception passing through the finally
          body_runs |-> 0, body_result |-> "none",
          captured |-> "none",     \* where the operation's write to descriptor 1 went
          captured_err |-> "none", \* and its write to descriptor 2
          logged |-> <<>>,         \* the logger.error calls of this scope
          events |-> <<>>,         \* the steps of the finally block, in order
          exit_path |-> "none", outcome |-> "none",
          after_fd |-> "none", after_py |-> "none"]

IdleRedirect == InitRedirect

\* leaving the generator for good: what the with statement's caller sees
Leave(r, exit_path, outcome) ==
    [r EXCEPT !.pc = "done", !.exit_path = exit_path, !.outcome = outcome]

\* lines 137-138: a new scope starts; fileno() of a closed file object raises
RdEnter ==
    /\ rd.pc = "idle"
    /\ rd.runs < MaxRuns
    /\ LET r == [rd EXCEPT !.runs = rd.runs + 1,
                           !.entry = [fd1 |-> rd.fd1, fd2 |-> rd.fd2,
                                      sys_stdout |-> rd.sys_stdout,
                                      sys_stderr |-> rd.sys_stderr,
                                      nfds |-> rd.nfds],
                           !.yielded = FALSE, !.inflight = "none",
                           !.body_runs = 0, !.body_result = "none",
                           !.captured = "none", !.captured_err = "none",
                           !.logged = <<>>,
                           !.events = <<>>, !.exit_path = "none",
                           !.outcome = "none", !.after_fd = "none",
                           !.after_py = "none",
                           !.saved_stdout_fd = "none", !.saved_stderr_fd = "none",
                           !.saved_stdout = "none", !.saved_stderr = "none"]
       IN  rd' = IF rd.sys_stdout = "f" \/ rd.sys_stderr = "f"
                 THEN Leave(r, "fileno_failed", "ValueError")
                 ELSE [r EXCEPT !.pc = "dup_stdout"]
    /\ UNCHANGED notRd

\* line 139: saved_stdout_fd = os.dup(stdout_fd); a failure propagates
RdDupStdout(fail) ==
    /\ rd.pc = "dup_stdout"
    /\ rd' = IF fail THEN Leave(rd, "dup_failed", "OSError")
             ELSE [rd EXCEPT !.pc = "dup_stderr", !.saved_stdout_fd = rd.fd1,
                             !.nfds = rd.nfds + 1]
    /\ UNCHANGED notRd

\* lines 140-142: saved_stderr_fd = os.dup(stderr_fd), and the two objects
RdDupStderr(fail) ==
    /\ rd.pc = "dup_stderr"
    /\ rd' = IF fail THEN Leave(rd, "dup_failed", "OSError")
             ELSE [rd EXCEPT !.pc = "open", !.saved_stderr_fd = rd.fd2,
                             !.nfds = rd.nfds + 1,
                             !.saved_stdout = rd.sys_stdout,
                             !.saved_stderr = rd.sys_stderr]
    /\ UNCHANGED notRd

\* line 144: file_path.open("w+"); a failure is caught at line 166 and logged,
\* and the generator ends without having yielded
RdOpen(fail) ==
    /\ rd.pc = "open"
    /\ rd' = IF fail
             THEN Leave([rd EXCEPT !.logged = Append(rd.logged, "create_failed")],
                        "open_failed", "RuntimeError")
             ELSE [rd EXCEPT !.pc = "dup2_stdout", !.f_open = TRUE,
                             !.nfds = rd.nfds + 1]
    /\ UNCHANGED notRd

\* a faulty variant: the descriptors are restored before the flushes and
\* the fsync
FinallyStepsRestoreFirst ==
    <<"restore_stdout", "restore_stderr", "flush_stdout", "flush_stderr",
      "fsync">>

\* the statements of the finally block, lines 158-165, in their order
FinallySteps ==
    <<"flush_stdout", "flush_stderr", "fsync", "restore_stdout",
      "restore_stderr">>

\* line 148: os.dup2(f_fd, stdout_fd); a failure is caught at line 153
RdDup2Stdout(fail) ==
    /\ rd.pc = "dup2_stdout"
    /\ rd' = IF fail
             THEN [rd EXCEPT !.pc = FinallySteps[1],
                             !.logged = Append(rd.logged, "redirect_failed")]
             ELSE [rd EXCEPT !.pc = "dup2_stderr", !.fd1 = "log"]
    /\ UNCHANGED notRd

\* lines 149-152: os.dup2(f_fd, stderr_fd), sys.stdout = sys.stderr = f, yield
RdDup2Stderr(fail) ==
    /\ rd.pc = "dup2_stderr"
    /\ rd' = IF fail
             THEN [rd EXCEPT !.pc = FinallySteps[1],
                             !.logged = Append(rd.logged, "redirect_failed")]
             ELSE [rd EXCEPT !.pc = "body", !.fd2 = "log", !.sys_stdout = "f",
                             !.sys_stderr = "f", !.yielded = TRUE]
    /\ UNCHANGED notRd

\* a faulty variant: the except clause catches nothing
CaughtNothing(result) == FALSE

\* line 153, except Exception: what the operation raised is caught
Caught(result) == result = "Exception"

\* the wrapped operation writes to descriptor 1 and returns, raises an
\* Exception (caught and logged at line 153) or raises a BaseException that is
\* no Exception (which passes through the finally)
RdBody(result) ==
    /\ rd.pc = "body"
    /\ rd' = [rd EXCEPT !.pc = FinallySteps[1],
                        !.body_runs = rd.body_runs + 1,
                        !.body_result = result,
                        !.captured = rd.fd1,
                        !.captured_err = rd.fd2,
                        !.inflight = IF result = "return" \/ Caught(result)
                                     THEN "none" ELSE result,
                        !.logged = IF Caught(result)
                                   THEN Append(rd.logged, "redirect_failed")
                                   ELSE rd.logged]
    /\ UNCHANGED notRd

\* a step of the finally block raised: the rest of the block is skipped, the
\* with statement closes f, line 166 catches and logs, the generator returns
FinallyRaises(r, exit_path) ==
    Leave([r EXCEPT !.f_open = FALSE, !.nfds = r.nfds - 1,
                    !.inflight = "none",
                    !.logged = Append(r.logged, "create_failed")],
          IF r.yielded THEN exit_path ELSE "dup2_failed",
          IF r.yielded THEN "normal" ELSE "RuntimeError")

\* the finally block ran to its end: f is closed and the generator ends, or
\* the exception in flight goes on to the caller
FinallyDone(r) ==
    Leave([r EXCEPT !.f_open = FALSE, !.nfds = r.nfds - 1],
          IF ~r.yielded THEN "dup2_failed"
          ELSE IF r.body_result = "return" THEN "normal" ELSE "body_failed",
          IF r.inflight # "none" THEN r.inflight
          ELSE IF r.yielded THEN "normal" ELSE "RuntimeError")

\* the statement of the finally block that follows step succeeded: the next
\* one, or the end of the block
Advance(r, step) ==
    LET i == CHOOSE k \in 1..Len(FinallySteps) : FinallySteps[k] = step
    IN  IF i = Len(FinallySteps) THEN FinallyDone(r)
        ELSE [r EXCEPT !.pc = FinallySteps[i + 1]]

\* line 158: sys.stdout.flush()
RdFlushStdout(fail) ==
    /\ rd.pc = "flush_stdout"
    /\ LET r == [rd EXCEPT !.events = Append(rd.events, "flush_stdout")]
       IN  rd' = IF fail THEN FinallyRaises(r, "flush_failed")
                 ELSE Advance(r, "flush_stdout")
    /\ UNCHANGED notRd

\* line 159: sys.stderr.flush()
RdFlushStderr(fail) ==
    /\ rd.pc = "flush_stderr"
    /\ LET r == [rd EXCEPT !.events = Append(rd.events, "flush_stderr")]
       IN  rd' = IF fail THEN FinallyRaises(r, "flush_failed")
                 ELSE Advance(r, "flush_stderr")
    /\ UNCHANGED notRd

\* line 160: os.fsync(f_fd)
RdFsync(fail) ==
    /\ rd.pc = "fsync"
    /\ LET r == [rd EXCEPT !.events = Append(rd.events, "fsync")]
       IN  rd' = IF fail THEN FinallyRaises(r, "fsync_failed")
                 ELSE Advance(r, "fsync")
    /\ UNCHANGED notRd

\* a faulty variant: descriptor 1 is left where it is
RestoreStdoutFdSkipped(r) == r.fd1

\* what line 162 makes descriptor 1 point to
RestoreStdoutFd(r) == r.saved_stdout_fd

\* line 162: os.dup2(saved_stdout_fd, stdout_fd)
RdRestoreStdout(fail) ==
    /\ rd.pc = "restore_stdout"
    /\ LET r == [rd EXCEPT !.events = Append(rd.events, "restore_stdout")]
       IN  rd' = IF fail THEN FinallyRaises(r, "restore_failed")
                 ELSE Advance([r EXCEPT !.fd1 = RestoreStdoutFd(rd)],
                              "restore_stdout")
    /\ UNCHANGED notRd

\* lines 163-165: os.dup2(saved_stderr_fd, stderr_fd), sys.stdout and
\* sys.stderr set back; then the with statement closes f
RdRestoreStderr(fail) ==
    /\ rd.pc = "restore_stderr"
    /\ LET r == [rd EXCEPT !.events = Append(rd.events, "restore_stderr")]
       IN  rd' = IF fail THEN FinallyRaises(r, "restore_failed")
                 ELSE Advance([r EXCEPT !.fd2 = rd.saved_stderr_fd,
                                        !.sys_stdout = rd.saved_stdout,
                                        !.sys_stderr = rd.saved_stderr],
                              "restore_stderr")
    /\ UNCHANGED notRd

\* after the scope the program writes to descriptor 1 and prints through
\* sys.stdout (a closed file object raises ValueError)
RdWriteAfter ==
    /\ rd.pc = "done"
    /\ rd' = [rd EXCEPT !.pc = "idle",
                        !.after_fd = rd.fd1,
                        !.after_py = IF rd.sys_stdout = "f" THEN "ValueError"
                                     ELSE rd.sys_stdout]
    /\ UNCHANGED notRd

NextRedirect ==
    \/ RdEnter
    \/ \E fail \in BOOLEAN : RdDupStdout(fail)
    \/ \E fail \in BOOLEAN : RdDupStderr(fail)
    \/ \E fail \in BOOLEAN : RdOpen(fail)
    \/ \E fail \in BOOLEAN : RdDup2Stdout(fail)
    \/ \E fail \in BOOLEAN : RdDup2Stderr(fail)
    \/ \E result \in {"return", "Exception", "BaseException"} : RdBody(result)
    \/ \E fail \in BOOLEAN : RdFlushStdout(fail)
    \/ \E fail \in BOOLEAN : RdFlushStderr(fail)
    \/ \E fail \in BOOLEAN : RdFsync(fail)
    \/ \E fail \in BOOLEAN : RdRestoreStdout(fail)
    \/ \E fail \in BOOLEAN : RdRestoreStderr(fail)
    \/ RdWriteAfter

-----------------------------------------------------------------------------
(* The sim-otf command *)

(* A path is a string, None where Python has None.  An option that takes      *)
(* several values, or a typed value, is a sequence: <<>> where Python has     *)
(* None.                                                                      *)

Null == <<>>

PsfPaths == {"p1", "p2"}
ConfigPaths == {"c1"}

\* the keys of the OTF parameter schema, standing for the table of
\* settings/formatting.py
OTF_FORMATTERS == {"na", "nimm"}

\* what the user can type: -p is required and takes one path or more
Argvs ==
    [psf : {q \in UNION {[1..n -> PsfPaths] : n \in 1..MaxPsf} : TRUE},
     config : ConfigPaths \cup {None},
     overwrite : BOOLEAN,
     shape : {Null, <<64, 32>>},
     centre : {Null, <<7, 9>>},
     overrides : [OTF_FORMATTERS -> {Null, <<1>>}]]

\* a faulty variant: keys whose value is None are kept
FilterOutInvalidKwargsKeepNone(kwargs, formatters, allow_none) ==
    [k \in DOMAIN kwargs \cap formatters |-> kwargs[k]]

\* filter_out_invalid_kwargs(kwargs, formatters, allow_none): the entries of
\* kwargs whose key is a key of formatters and, unless allow_none, whose
\* value is not None
FilterOutInvalidKwargs(kwargs, formatters, allow_none) ==
    [k \in {j \in DOMAIN kwargs \cap formatters :
               allow_none \/ kwargs[j] # Null} |-> kwargs[k]]

\* parser.parse_known_args(args): one attribute per option, None (or the
\* store_true / store_false default) when the option is not given
ParseKnownArgs(argv) ==
    [psf_paths |-> argv.psf,
     config_path |-> argv.config,
     output_directory |-> None,
     overwrite |-> argv.overwrite,
     cleanup |-> TRUE,
     xy_shape |-> argv.shape,
     xy_centre |-> argv.centre,
     na |-> argv.overrides["na"],
     nimm |-> argv.overrides["nimm"]]

\* a faulty variant: the kwargs are split out with allow_none=True
ParseArgsAllowNone(argv) ==
    LET namespace == ParseKnownArgs(argv)
    IN  [namespace |-> namespace,
         otf_kwargs |-> FilterOutInvalidKwargs(namespace, OTF_FORMATTERS, TRUE)]

\* parse_args(): the namespace and the kwargs split out for makeotf
ParseArgs(argv) ==
    LET namespace == ParseKnownArgs(argv)
    IN  [namespace |-> namespace,
         otf_kwargs |-> FilterOutInvalidKwargs(namespace, OTF_FORMATTERS, FALSE)]

\* the value a keyword-only parameter takes: the keyword argument when the
\* call gives one, else the default
Keyword(kwargs, key, default) ==
    IF key \in DOMAIN kwargs THEN kwargs[key] ELSE default

\* a faulty variant: the first positional argument is taken for config_path
BindSimPsfToOtfConfigFirst(args, kwargs) ==
    [psf_paths |-> Tail(args),
     config_path |-> Head(args),
     xy_shape |-> Keyword(kwargs, "xy_shape", Null),
     xy_centre |-> Keyword(kwargs, "xy_centre", Null),
     otf_kwargs |-> [k \in DOMAIN kwargs \ {"xy_shape", "xy_centre"}
                        |-> kwargs[k]]]

\* def sim_psf_to_otf(*psf_paths, config_path=None, ..., xy_shape=None,
\* xy_centre=None, **otf_kwargs): every positional argument goes to
\* psf_paths, the named parameters are keyword-only
BindSimPsfToOtf(args, kwargs) ==
    [psf_paths |-> args,
     config_path |-> None,
     xy_shape |-> Keyword(kwargs, "xy_shape", Null),
     xy_centre |-> Keyword(kwargs, "xy_centre", Null),
     otf_kwargs |-> [k \in DOMAIN kwargs \ {"xy_shape", "xy_centre"}
                        |-> kwargs[k]]]

\* sim_psf_to_otf: conf = load_configs(config_path), then
\* convert_psfs_to_otfs(conf, *psf_paths, xy_shape=..., xy_centre=...,
\* **otf_kwargs)
SimPsfToOtf(args, kwargs) ==
    LET b == BindSimPsfToOtf(args, kwargs)
    IN  [load_configs |-> b.config_path,
         convert |-> [psf_paths |-> b.psf_paths,
                      xy_shape |-> b.xy_shape,
                      xy_centre |-> b.xy_centre,
                      otf_kwargs |-> b.otf_kwargs]]

NoArgv ==
    [psf |-> <<"p1">>, config |-> None, overwrite |-> FALSE, shape |-> Null,
     centre |-> Null, overrides |-> [k \in OTF_FORMATTERS |-> Null]]

InitCli ==
    cli = [pc |-> "start", argv |-> NoArgv, parsed |-> ParseArgs(NoArgv),
           ran |-> SimPsfToOtf(<<>>, <<>>)]

IdleCli == InitCli

\* sim_otf line 9: namespace, otf_kwargs = parse_otf_args()
ParseOtfArgs(argv) ==
    /\ cli.pc = "start"
    /\ cli' = [cli EXCEPT !.pc = "parsed", !.argv = argv,
                          !.parsed = ParseArgs(argv)]
    /\ UNCHANGED notCli

\* sim_otf lines 15-22: sim_psf_to_otf(namespace.config_path,
\* *namespace.psf_paths, output_directory=..., overwrite=..., cleanup=...,
\* **otf_kwargs)
SimOtf ==
    /\ cli.pc = "parsed"
    /\ cli' = [cli EXCEPT
                 !.pc = "done",
                 !.ran = SimPsfToOtf(<<cli.parsed.namespace.config_path>>
                                        \o cli.parsed.namespace.psf_paths,
                                     cli.parsed.otf_kwargs)]
    /\ UNCHANGED notCli

NextCli ==
    \/ \E argv \in Argvs : ParseOtfArgs(argv)
    \/ SimOtf

-----------------------------------------------------------------------------
(* sim_reconstruct_multiple *)

\* what the configuration files are like: the root config, its reference to
\* the defaults config, the defaults config and the channel configs
ConfigFiles ==
    [root : {"ok", "unreadable"},
     defaults_ref : {"ok", "missing"},
     defaults : {"ok", "unreadable"},
     channels : {"ok", "unreadable"}]

\* a faulty variant: a configuration that cannot be read is taken as absent
LoadConfigsLenient(config_path, cf) ==
    [outcome |-> "ok", conf |-> None]

\* load_configs(config_path, otf_overrides): none of its four reads is inside
\* a try, so the first that fails raises out of load_configs
LoadConfigs(config_path, cf) ==
    IF config_path = None
    THEN [outcome |-> "ok", conf |-> None]
    ELSE IF cf.root # "ok"                  \* read_config(config_path)
    THEN [outcome |-> "ConfigurationError", conf |-> None]
    ELSE IF cf.defaults_ref # "ok"          \* get_defaults_config_path
    THEN [outcome |-> "ConfigurationError", conf |-> None]
    ELSE IF cf.defaults # "ok"              \* get_otf_and_recon_kwargs
    THEN [outcome |-> "ConfigurationError", conf |-> None]
    ELSE IF cf.channels # "ok"              \* get_channel_configs
    THEN [outcome |-> "ConfigurationError", conf |-> None]
    ELSE [outcome |-> "ok", conf |-> config_path]

InitBatch ==
    \E n \in 2..MaxJobs, config_path \in ConfigPaths \cup {None},
       cf \in ConfigFiles :
        batch = [pc |-> "start", n |-> n, config_path |-> config_path,
                 files |-> cf, conf |-> None,
                 jobs |-> [i \in 1..MaxJobs |->
                              IF i <= n THEN "Pending" ELSE "none"],
                 recorded |-> {}, raised |-> "none"]

IdleBatch ==
    batch = [pc |-> "start", n |-> 2, config_path |-> None,
             files |-> [root |-> "ok", defaults_ref |-> "ok",
                        defaults |-> "ok", channels |-> "ok"],
             conf |-> None,
             jobs |-> [i \in 1..MaxJobs |-> IF i <= 2 THEN "Pending" ELSE "none"],
             recorded |-> {}, raised |-> "none"]

\* sim_reconstruct_multiple line 217: conf = load_configs(config_path,
\* otf_overrides=otf_overrides); an exception leaves the function here
BatchLoadConfigs ==
    /\ batch.pc = "start"
    /\ LET r == LoadConfigs(batch.config_path, batch.files)
       IN  batch' = IF r.outcome = "ok"
                    THEN [batch EXCEPT !.pc = "dispatching", !.conf = r.conf]
                    ELSE [batch EXCEPT !.pc = "raised", !.raised = r.outcome]
    /\ UNCHANGED notBatch

\* the Job reconstruct_multiple runs next, in order
NextJob == CHOOSE i \in 1..batch.n :
              /\ batch.jobs[i] = "Pending"
              /\ \A j \in 1..(i - 1) : batch.jobs[j] # "Pending"

\* reconstruct_multiple, one Job: it ends Done or Failed, and a failure is
\* recorded
RunJob(result) ==
    /\ batch.pc = "dispatching"
    /\ \E i \in 1..batch.n : batch.jobs[i] = "Pending"
    /\ batch' = [batch EXCEPT
                   !.jobs[NextJob] = IF result = "ok" THEN "Done" ELSE "Failed",
                   !.recorded = IF result = "ok" THEN batch.recorded
                                ELSE batch.recorded \cup {<<NextJob, result>>}]
    /\ UNCHANGED notBatch

\* reconstruct_multiple, after the last Job: the recorded failures are
\* surfaced
BatchComplete ==
    /\ batch.pc = "dispatching"
    /\ \A i \in 1..batch.n : batch.jobs[i] # "Pending"
    /\ batch' = [batch EXCEPT
                   !.pc = IF batch.recorded = {} THEN "returned" ELSE "raised",
                   !.raised = IF batch.recorded = {} THEN "none"
                              ELSE "BatchFailed"]
    /\ UNCHANGED notBatch

NextBatch ==
    \/ BatchLoadConfigs
    \/ \E result \in {"ok", "ConfigurationError", "EngineError"} : RunJob(result)
    \/ BatchComplete

-----------------------------------------------------------------------------
(* Specifications *)

InitP == InitPath /\ IdleSan /\ IdleGuard /\ IdleTmp /\ IdleRedirect
    /\ IdleCli /\ IdleBatch

SpecPath == InitP /\ [][NextPath]_vars

InitA ==
    /\ InitAlloc /\ IdleSan /\ IdleGuard /\ IdleTmp /\ IdleRedirect
    /\ IdleCli /\ IdleBatch

SpecAlloc == InitA /\ [][NextAlloc]_vars

InitS == InitSan /\ IdlePath /\ IdleGuard /\ IdleTmp /\ IdleRedirect
    /\ IdleCli /\ IdleBatch

SpecSan == InitS /\ [][NextSan]_vars

InitG == InitGuard /\ IdlePath /\ IdleSan /\ IdleTmp /\ IdleRedirect
    /\ IdleCli /\ IdleBatch

SpecGuard == InitG /\ [][NextGuard]_vars

InitT == InitTmp /\ IdlePath /\ IdleSan /\ IdleGuard /\ IdleRedirect
    /\ IdleCli /\ IdleBatch

SpecTmp == InitT /\ [][NextTmp]_vars

InitRc ==
    /\ InitRace /\ IdlePath /\ IdleSan /\ IdleGuard /\ IdleRedirect
    /\ IdleCli /\ IdleBatch

SpecRace == InitRc /\ [][NextRace]_vars

InitR == InitRedirect /\ IdlePath /\ IdleSan /\ IdleGuard /\ IdleTmp
    /\ IdleCli /\ IdleBatch

SpecRedirect == InitR /\ [][NextRedirect]_vars

InitC ==
    /\ InitCli /\ IdlePath /\ IdleSan /\ IdleGuard /\ IdleTmp /\ IdleRedirect
    /\ IdleBatch

SpecCli == InitC /\ [][NextCli]_vars

InitB ==
    /\ InitBatch /\ IdlePath /\ IdleSan /\ IdleGuard /\ IdleTmp /\ IdleRedirect
    /\ IdleCli

SpecBatch == InitB /\ [][NextBatch]_vars

-----------------------------------------------------------------------------
(* Claims about path allocation, checked under SpecPath *)

Resolved == res.called /\ res.ensure_unique /\ res.out.kind # "FileNotFoundError"

\* the indices lo..max_iter whose candidate path did not exist when the call was made
FreeIndices(lo) == {k \in lo..res.max_iter : Cand(job, k) \notin res.fs}

Smallest(S) == CHOOSE k \in S : \A m \in S : k <= m

ReturnsCand(k) == res.out.kind = "ok" /\ res.out.path = Cand(job, k)

Increasing(seq) == \A i \in 1..Len(seq) - 1 : seq[i] < seq[i + 1]

\* C1 as stated: unique-path resolution returns {stem}{suffix} when it does not
\* exist and otherwise {stem}_{i}{suffix} for the smallest i in 1..max_attempts
\* that does not exist, for every max_attempts; a returned path never exists
\* when returned, and the paths written one after another have increasing indices.
C1_Original ==
    /\ Resolved =>
        /\ Cand(job, 0) \notin res.fs => ReturnsCand(0)
        /\ (Cand(job, 0) \in res.fs /\ FreeIndices(1) # {})
              => ReturnsCand(Smallest(FreeIndices(1)))
        /\ res.out.kind = "ok" => res.out.path \notin res.fs
    /\ Increasing(created)

\* C1 amended: the same, where the search of the indexed names is promised only
\* for max_attempts >= 2 (with max_attempts <= 1 and {stem}{suffix} existing
\* the call fails with the validation error instead).
C1_Amended ==
    /\ Resolved =>
        /\ Cand(job, 0) \notin res.fs => ReturnsCand(0)
        /\ (Cand(job, 0) \in res.fs /\ FreeIndices(1) # {})
              => IF res.max_iter >= 2
                 THEN ReturnsCand(Smallest(FreeIndices(1)))
                 ELSE res.out.kind = "ValueError"
        /\ res.out.kind = "ok" => res.out.path \notin res.fs
    /\ Increasing(created)

\* {stem}{suffix} was allocated and written, {stem}_1{suffix} was there from the
\* start, and the next allocation has just returned {stem}_2{suffix}
C1_Witness ==
    /\ Resolved /\ res.max_iter >= 2
    /\ created = <<0>>
    /\ Cand(job, 1) \in res.fs
    /\ ReturnsCand(2)

\* C2 as stated: with max_attempts <= 1 uniqueness resolution always fails with
\* the validation error, and no existence probe has been made before it does.
C2_Claim ==
    (Resolved /\ res.max_iter <= 1)
        => (res.out.kind = "ValueError" /\ res.out.probes = <<>>)

\* no invalid character of the platform's rule set, no trailing character it strips
IsSanitised(sys, name) ==
    /\ \A i \in 1..Len(name) : name[i] \notin InvalidChars(sys)
    /\ Len(name) > 0 => name[Len(name)] \notin RStripChars(sys)

\* C3 as stated: every path create_output_path returns has a filename sanitised
\* for the current platform, and every existence probe is of a sanitised filename.
C3_Claim ==
    (res.called /\ system \in Supported) =>
        /\ res.out.kind = "ok" => IsSanitised(system, res.out.path[2])
        /\ \A i \in 1..Len(res.out.probes) :
              IsSanitised(system, res.out.probes[i][2])

\* C5 as stated: on a platform that is not Windows, Linux or Darwin
\* create_output_path returns no path, whatever its arguments.
C5_Claim ==
    (res.called /\ system \notin Supported) => res.out.kind # "ok"

AllExist == \A k \in 0..res.max_iter : Cand(job, k) \in res.fs

ProbesWithin ==
    \A i \in 1..Len(res.out.probes) :
        \E k \in 0..res.max_iter : k >= 0 /\ res.out.probes[i] = Cand(job, k)

\* C6 as stated: when {stem}{suffix} and every {stem}_{i}{suffix}, i in
\* 1..max_attempts, exist, resolution fails with the IO error naming
\* {stem}_{max_attempts}{suffix}, for every max_attempts; it never returns an
\* existing path and probes no index above max_attempts.
C6_Original ==
    Resolved =>
        /\ AllExist => (res.out.kind = "IOError"
                        /\ res.out.final = Cand(job, res.max_iter))
        /\ res.out.kind = "ok" => res.out.path \notin res.fs
        /\ res.max_iter >= 1 => ProbesWithin

\* C6 amended: the IO error is promised for max_attempts >= 2 (with
\* max_attempts <= 1 the failure is the validation error).
C6_Amended ==
    Resolved =>
        /\ AllExist => IF res.max_iter >= 2
                       THEN (res.out.kind = "IOError"
                             /\ res.out.final = Cand(job, res.max_iter))
                       ELSE res.out.kind = "ValueError"
        /\ res.out.kind = "ok" => res.out.path \notin res.fs
        /\ res.max_iter >= 1 => ProbesWithin

\* every candidate existed and the call failed after probing all of them
C6_Witness ==
    /\ Resolved /\ res.max_iter >= 2 /\ AllExist
    /\ res.out.kind = "IOError"
    /\ Len(res.out.probes) = res.max_iter + 1

-----------------------------------------------------------------------------
(* Claims about ensure_valid_filename, checked under SpecSan *)

\* the characters a filename may not hold on each platform
ReservedChars(sys) ==
    IF sys = "Windows" THEN {"<", ">", ":", "\"", "/", "\\", "|", "?", "*"}
    ELSE IF sys = "Linux" THEN {"/"}
    ELSE {"/", ":"}

\* C4 as stated: on Windows, Linux and Darwin ensure_valid_filename returns the
\* input with the platform's trailing characters stripped from the end and each
\* platform-invalid character replaced by "_", every other character kept in
\* place; applied to its own result it changes nothing.
C4_Claim ==
    (san.stage >= 1 /\ san.sys \in Supported) =>
        LET s == san.filename
            r == san.out.name
            n == Len(r)
        IN  /\ san.out.kind = "ok"
            /\ n <= Len(s)
            /\ \A i \in (n + 1)..Len(s) : s[i] \in RStripChars(san.sys)
            /\ n > 0 => s[n] \notin RStripChars(san.sys)
            /\ \A i \in 1..n :
                  r[i] = IF s[i] \in ReservedChars(san.sys) THEN "_" ELSE s[i]
            /\ san.stage = 2 => san.again = san.out

-----------------------------------------------------------------------------
(* Claims about delete_directory_if_empty, checked under SpecGuard *)

\* the directory was there when the guard was left and is gone afterwards
GuardRemoved == IsDir(guard.at_exit) /\ gdir.kind = "absent"

\* C7: the guard removes the directory at exit if and only if the path is not
\* None, the directory did not exist at entry and it exists and is empty at
\* exit, on normal and on exceptional exit alike; in every other case the path
\* is left exactly as it was.
C7_DeleteIfEmpty ==
    guard.pc = "exited" =>
        /\ GuardRemoved <=> (/\ ~guard.path_none
                             /\ ~IsDir(guard.at_entry)
                             /\ guard.at_exit = Dir({}))
        /\ ~GuardRemoved => gdir = guard.at_exit

\* the directory was created and left empty inside the guard, the guarded
\* operation raised, and the directory is gone
C7_Witness ==
    /\ guard.pc = "exited" /\ guard.raised /\ ~guard.path_none
    /\ guard.at_entry = Absent /\ guard.at_exit = Dir({})
    /\ gdir = Absent

-----------------------------------------------------------------------------
(* Claims about NamedTemporaryDirectory, checked under SpecTmp *)

\* the scope got a mkdtemp name because directory/name was already there
Collided(sc) == sc.st # "none" /\ sc.path[1] \in DirNames /\ sc.path[2] >= 1

\* C8: constructing with a name whose target exists fails with the
\* already-exists error when fallback is not allowed, and otherwise makes a
\* new directory under the same parent, not there before and different from
\* the target; either way nothing else under the parent changes, and no later
\* cleanup(), __exit__ or finalizer run of that scope changes the target.
C8_ExistingTarget ==
    [][/\ \A s \in ScopeIds, name \in DirNames,
             parents, allow_fallback, ignore, delete \in BOOLEAN :
            (/\ Construct(s, name, parents, allow_fallback, ignore, delete)
             /\ tparent = "dir"
             /\ tfs[Target(name)] # "absent")
            => IF ~allow_fallback
               THEN /\ scopes'[s].st = "failed"
                    /\ scopes'[s].err = "FileExistsError"
                    /\ tfs' = tfs
               ELSE /\ scopes'[s].st = "live"
                    /\ LET n == scopes'[s].path
                       IN  /\ n # Target(name)
                           /\ n[1] = name
                           /\ tfs[n] = "absent"
                           /\ tfs'[n] = "empty"
                           /\ \A m \in TNames \ {n} : tfs'[m] = tfs[m]
       /\ \A s \in ScopeIds, ok \in BOOLEAN :
            (/\ Cleanup(s, ok) \/ ExitScope(s, ok) \/ Finalize(s, ok)
             /\ Collided(scopes[s]))
            => tfs'[Target(scopes[s].path[1])] = tfs[Target(scopes[s].path[1])]
      ]_vars

\* a scope that fell back has been cleaned up: its own directory is gone and
\* the target, which held files before, still holds them
C8_Witness ==
    \E s \in ScopeIds :
        /\ scopes[s].st \in {"released", "gone"}
        /\ Collided(scopes[s])
        /\ tfs[scopes[s].path] = "absent"
        /\ tfs[Target(scopes[s].path[1])] = "full"

\* C9: constructing with a name under a missing parent creates the parent (and
\* then the target) when parent creation is allowed, and otherwise fails with
\* the not-found error and creates nothing; the parent never comes into being
\* by a construction that did not allow it.
C9_MissingParent ==
    [][/\ \A s \in ScopeIds, name \in DirNames,
             parents, allow_fallback, ignore, delete \in BOOLEAN :
            (/\ Construct(s, name, parents, allow_fallback, ignore, delete)
             /\ tparent = "missing")
            => IF parents
               THEN /\ tparent' = "dir"
                    /\ scopes'[s].st = "live"
                    /\ scopes'[s].path = Target(name)
                    /\ tfs'[Target(name)] = "empty"
               ELSE /\ scopes'[s].st = "failed"
                    /\ scopes'[s].err = "FileNotFoundError"
                    /\ tparent' = "missing"
                    /\ tfs' = tfs
       /\ (tparent # "dir" /\ tparent' = "dir")
            => \E s \in ScopeIds, name \in DirNames,
                  allow_fallback, ignore, delete \in BOOLEAN :
                    Construct(s, name, TRUE, allow_fallback, ignore, delete)
      ]_vars

\* a construction under a missing parent was refused and nothing was created
C9_Witness ==
    \E s \in ScopeIds :
        /\ scopes[s].st = "failed"
        /\ scopes[s].err = "FileNotFoundError"
        /\ tparent = "missing"
        /\ \A n \in TNames : tfs[n] = "absent"

\* a construction under a missing parent created the parent and the target
C9_WitnessCreated ==
    \E s \in ScopeIds :
        /\ scopes[s].st = "live"
        /\ scopes[s].path = Target("x")
        /\ tparent = "dir"
        /\ \A n \in TNames \ {Target("x")} : tfs[n] = "absent"

-----------------------------------------------------------------------------
(* Claims about redirect_output_to, checked under SpecRedirect *)

\* descriptors 1 and 2 and sys.stdout and sys.stderr are what they were when
\* the scope was entered
Restored ==
    /\ rd.fd1 = rd.entry.fd1
    /\ rd.fd2 = rd.entry.fd2
    /\ rd.sys_stdout = rd.entry.sys_stdout
    /\ rd.sys_stderr = rd.entry.sys_stderr

\* C10 as stated: after the scope has ended by normal completion, a failure
\* inside the wrapped operation, a failure of flush or fsync at exit, or a
\* failure to open the target file, descriptors 1 and 2 and sys.stdout and
\* sys.stderr refer to the original destinations, and a write made after the
\* scope reaches the original destination.
C10_Claim ==
    (/\ rd.exit_path \in {"normal", "body_failed", "flush_failed",
                          "fsync_failed", "open_failed"}
     /\ rd.pc \in {"done", "idle"})
    => /\ Restored
       /\ rd.pc = "idle" => (/\ rd.after_fd = rd.entry.fd1
                             /\ rd.after_py = rd.entry.sys_stdout)

\* the scope ended because capture could not be set up
CaptureFailed ==
    /\ rd.pc \in {"done", "idle"}
    /\ rd.exit_path \in {"open_failed", "dup_failed", "dup2_failed"}

\* C11 as stated: when the log file cannot be opened or the descriptors cannot
\* be duplicated or redirected, an error is logged, the wrapped operation
\* still runs exactly once with its output not captured, and nothing is
\* raised to the caller of the scope.
C11_Claim ==
    CaptureFailed
    => /\ Len(rd.logged) > 0
       /\ rd.body_runs = 1
       /\ rd.captured # "log"
       /\ rd.outcome = "normal"

-----------------------------------------------------------------------------
(* Claims about the finalizer and the delete flag, checked under SpecTmp *)

\* the object s is collected in this step
Discarded(s) == scopes[s].st \in {"live", "released"} /\ scopes'[s].st = "gone"

C12_WitnessReleased ==
    \E s \in ScopeIds :
        /\ scopes[s].st = "gone"
        /\ scopes[s].delete
        /\ ~scopes[s].warned
        /\ ~scopes[s].rmfailed
        /\ scopes[s].path[2] >= 1
        /\ tfs[scopes[s].path] = "full"

\* C13 as stated: when the finalizer's deletion of the tree fails, nothing is
\* raised to the program and the warning is still given, whatever the value
\* of ignore_cleanup_errors.
C13_Claim ==
    \A s \in ScopeIds :
        (scopes[s].st = "gone" /\ scopes[s].rmfailed)
        => /\ scopes[s].err = "none"
           /\ scopes[s].warned

\* C14 as stated: the directory of a scope made with delete=False, and what
\* it holds, is never removed: not by leaving the scope, not by an explicit
\* release, not by the finalizer.
C14_Claim ==
    [][\A s \in ScopeIds :
        (/\ scopes[s].st \in {"live", "released"}
         /\ ~scopes[s].delete
         /\ tfs[scopes[s].path] # "absent")
        => tfs'[scopes[s].path] # "absent"]_vars

-----------------------------------------------------------------------------
(* Claims about the sim-otf command, checked under SpecCli *)

\* C15 as stated: the PSF files converted are exactly the paths given to
\* -p/--psf, the root config used to resolve the configuration is the value
\* given to -c/--config-path (None when the option is absent), and the config
\* path is not among the PSF paths.
C15_Claim ==
    cli.pc = "done"
    => /\ cli.ran.convert.psf_paths = cli.argv.psf
       /\ cli.ran.load_configs = cli.argv.config

-----------------------------------------------------------------------------
(* Claims about sim_reconstruct_multiple, checked under SpecBatch *)

\* C16 as stated: a configuration error does not stop the batch: whenever
\* the call raises, every Job of the batch has already run to Done or Failed,
\* so nothing is raised before or in the middle of dispatching the Jobs.
C16_Claim ==
    batch.raised # "none"
    => \A i \in 1..batch.n : batch.jobs[i] \in {"Done", "Failed"}

-----------------------------------------------------------------------------
(* Claims about concurrent constructions, checked under SpecRace *)

\* C17: whatever the interleaving of constructors called with the same
\* directory and the same name, no two scopes that are live at the same time
\* have the same directory: at most one of them has directory/name and every
\* other one that succeeded has a different directory.
C17_Exclusive ==
    \A c, d \in CtorIds :
        (c # d /\ scopes[c].st = "live" /\ scopes[d].st = "live")
        => scopes[c].path # scopes[d].path

\* two constructors both found directory/x absent (both were at the mkdir
\* step together); one made it and is live, the other's mkdir raised
C17_Witness ==
    \E c, d \in CtorIds :
        /\ scopes[c].st = "live"
        /\ scopes[c].path = Target("x")
        /\ ctor[d].name = "x"
        /\ ctor[d].pc = "mkdir_raised"
        /\ scopes[d].st = "failed"
        /\ scopes[d].err = "OSFileExistsError"

\* two constructors called with name x are both live: one has directory/x,
\* the other fell back to another directory
C17_WitnessFallback ==
    \E c, d \in CtorIds :
        /\ scopes[c].st = "live" /\ scopes[c].path = Target("x")
        /\ scopes[d].st = "live" /\ ctor[d].name = "x"
        /\ scopes[d].path[1] = "x" /\ scopes[d].path[2] >= 1

\* C18: the override map made from the command line, and the one that
\* reaches the conversion, has only keys of the OTF parameter schema and no
\* key whose value is None: it holds exactly the override flags the user set,
\* with the values given.
C18_Overrides ==
    cli.pc \in {"parsed", "done"}
    => LET m == IF cli.pc = "done" THEN cli.ran.convert.otf_kwargs
                ELSE cli.parsed.otf_kwargs
       IN  /\ DOMAIN m \subseteq OTF_FORMATTERS
           /\ \A k \in DOMAIN m : m[k] # Null
           /\ \A k \in OTF_FORMATTERS :
                IF cli.argv.overrides[k] = Null
                THEN k \notin DOMAIN m
                ELSE k \in DOMAIN m /\ m[k] = cli.argv.overrides[k]

\* the command ran with --na set and --nimm not set: the map has na only
C18_Witness ==
    /\ cli.pc = "done"
    /\ cli.argv.overrides["na"] # Null
    /\ cli.argv.overrides["nimm"] = Null
    /\ DOMAIN cli.ran.convert.otf_kwargs = {"na"}

\* C19 as stated: the values given to --shape and --centre reach the
\* conversion as xy_shape and xy_centre, and the conversion receives None for
\* both when the options are absent.
C19_Claim ==
    cli.pc = "done"
    => /\ cli.ran.convert.xy_shape = cli.argv.shape
       /\ cli.ran.convert.xy_centre = cli.argv.centre

-----------------------------------------------------------------------------
(* Claims about the capture and the order of the exit steps, checked under    *)
(* SpecRedirect                                                               *)

\* the steps of the finally block taken so far are the first ones of: flush
\* of stdout, flush of stderr, fsync, restoring descriptor 1, restoring
\* descriptor 2
ExitOrder ==
    LET order == <<"flush_stdout", "flush_stderr", "fsync", "restore_stdout",
                   "restore_stderr">>
    IN  /\ Len(rd.events) <= Len(order)
        /\ \A i \in 1..Len(rd.events) : rd.events[i] = order[i]

\* C20: when the redirection succeeded, what the wrapped operation writes to
\* descriptors 1 and 2 goes to the target file; the steps at exit come in the
\* order flush, flush, fsync, restore, restore; and a descriptor points away
\* from the target file again only after the fsync has succeeded.
C20_CaptureOrder ==
    rd.yielded
    => /\ rd.body_runs > 0 => (rd.captured = "log" /\ rd.captured_err = "log")
       /\ ExitOrder
       /\ (rd.fd1 # "log" \/ rd.fd2 # "log")
          => (Len(rd.events) >= 4 /\ rd.events[3] = "fsync")

\* a scope that redirected, ran the operation and left normally: the write
\* was captured, all five steps were taken, descriptor 1 is restored
C20_Witness ==
    /\ rd.pc = "done"
    /\ rd.exit_path = "normal"
    /\ rd.captured = "log"
    /\ Len(rd.events) = 5
    /\ rd.fd1 = "out"
    /\ rd.fd2 = "err"

-----------------------------------------------------------------------------
(* Claims about concurrent path allocation, checked under SpecAlloc *)

\* caller a's probes could find a free path: the plain path is free, or an
\* indexed one within its max_path_iter >= 2 is
Allocatable(a) ==
    \/ Cand(job, 0) \notin alloc[a].seen
    \/ /\ alloc[a].max_iter >= 2
       /\ \E k \in 1..alloc[a].max_iter : Cand(job, k) \notin alloc[a].seen

\* C21: two callers of create_output_path with ensure_unique, for the same
\* directory, stem and suffix, whose existence probes saw the same files
\* (neither had written its file before the other probed) and could find a
\* free path, are both returned a path, and it is the same path.
C21_SamePath ==
    \A a, b \in AllocIds :
        (/\ a # b
         /\ alloc[a].st # "idle" /\ alloc[b].st # "idle"
         /\ alloc[a].seen = alloc[b].seen
         /\ Allocatable(a) /\ Allocatable(b))
        => /\ alloc[a].out.kind = "ok"
           /\ alloc[b].out.kind = "ok"
           /\ alloc[a].out.path = alloc[b].out.path

\* two callers were returned the same indexed path and both wrote it: the
\* second write went over the first caller's file
C21_Witness ==
    \E a, b \in AllocIds :
        /\ a # b
        /\ alloc[a].st = "written" /\ alloc[b].st = "written"
        /\ alloc[a].out.path = alloc[b].out.path
        /\ Cand(job, 0) \in alloc[a].seen
        /\ alloc[b].clobbered

-----------------------------------------------------------------------------
(* Claims about what a redirect_output_to scope hides and what it keeps open, *)
(* checked under SpecRedirect                                                 *)

\* C22: an Exception raised by the operation inside the scope is caught and
\* logged by the scope and does not reach the caller: the with statement
\* completes normally, and when the exit steps succeeded the descriptors and
\* sys.stdout and sys.stderr are restored.
C22_Suppressed ==
    (rd.pc \in {"done", "idle"} /\ rd.body_result = "Exception")
    => /\ rd.outcome = "normal"
       /\ \E i \in 1..Len(rd.logged) : rd.logged[i] = "redirect_failed"
       /\ rd.exit_path = "body_failed" => Restored

\* the operation raised an Exception, the exit steps succeeded, and the with
\* statement completed normally
C22_Witness ==
    /\ rd.pc = "done"
    /\ rd.body_result = "Exception"
    /\ rd.exit_path = "body_failed"
    /\ rd.outcome = "normal"
    /\ Len(rd.events) = 5
    /\ Restored

\* C23 as stated: after a scope has ended, by whatever exit path, the process
\* has as many open descriptors as before the scope was entered.
C23_Claim ==
    rd.pc \in {"done", "idle"} => rd.nfds = rd.entry.nfds

====
